---- MODULE Spec2Model ----
(***************************************************************************)
(* The plugin manager of the haiku server (lib/PluginManager.js), the     *)
(* plugins of plugins/ and the bootstrap of the server, as state          *)
(* machines.  JavaScript runs one task at a time: an action is the code    *)
(* that runs between two suspension points (await), and the actions of     *)
(* different asynchronous calls interleave at those points only.           *)
(***************************************************************************)
EXTENDS Integers, Sequences, FiniteSets, TLC

VARIABLES
  plugins,      \* this.plugins: a Map, as the sequence of its entries in insertion order
  hooks,        \* this.hooks: hook name -> array of callbacks (absent = empty)
  middleware,   \* this.middleware
  initialized,  \* this.initialized
  stack,        \* the layers of the Express app, in the order of app.use / app.get
  initPc,       \* position of each call of PluginManager.init
  initIdx,      \* index of the Map entry whose init that call awaits
  hookRuns,     \* number of runHook('plugins:initialized') calls made so far
  invoked,      \* the plugin inits invoked so far, in order, as <<call, name>>
  skipped,      \* the plugins skipped as disabled (and logged), as <<call, name>>
  inflight,     \* plugin inits invoked and not yet settled, as <<call, name>>
  run,          \* the calls of runHook: position, hook name, current value
  trace,        \* per call of runHook: the callbacks it invoked, with their arguments
  cbPending,    \* hook callbacks invoked and not yet settled, as <<run, index>>
  response,     \* what the GET / handler answered
  threw,        \* the last call of register, enable or disable threw
  dirExists,    \* the plugins directory exists
  dir,          \* fs.readdirSync(pluginsDir): the file names, in the order listed
  files,        \* the files loadFromDirectory loads, in order
  loadIdx,      \* index of the file loadFromDirectory loads next
  loaded,       \* the files whose load registered a plugin, in order
  loadFailed,   \* the files whose load threw (and was logged), in order
  bootPc,       \* position of bootstrap
  listening,    \* the server listens
  error,        \* the message of the error that call threw ("" when it did not)
  requestCounts,\* the requestCounts Map of the rate limiter: key -> { count, resetTime }
  now,          \* Date.now()
  res,          \* the last request the app has dispatched, and its response
  admitted,     \* per key: the requests the rate limiter passed on to next()
                \* since the first request of the key's window (history)
  uncleaned     \* requestCounts as the same requests at the same times leave
                \* it when the interval callback never runs (history)

regVars == <<plugins, hooks, middleware, initialized, stack>>
initVars == <<initPc, initIdx, hookRuns, invoked, skipped, inflight>>
runVars == <<run, trace, cbPending, response>>
bootVars == <<dirExists, dir, files, loadIdx, loaded, loadFailed, bootPc, listening>>
reqVars == <<requestCounts, now, res, admitted, uncleaned>>

vars == <<plugins, hooks, middleware, initialized, stack, initPc, initIdx,
          hookRuns, invoked, skipped, inflight, run, trace, cbPending,
          response, threw, dirExists, dir, files, loadIdx, loaded, loadFailed,
          bootPc, listening, error, requestCounts, now, res, admitted,
          uncleaned>>

(***************************************************************************)
(* Inputs                                                                  *)
(***************************************************************************)
\* Names a caller registers plugins under.
Names == {"a", "b"}

\* The plugin modules of the repository.
RepoModules == {"analytics", "api-routes", "cors", "haiku-filter", "logger",
                "rate-limiter"}

\* Plugin modules callers register.  "analytics" is a plugin of the repository
\* (its init adds a middleware and a route); "watcher" is a module whose init
\* registers two callbacks for 'plugins:initialized', "broken" one whose init
\* rejects, "noinit" one that has no init and "badinit" one whose init is a
\* string.
Modules == {"analytics", "watcher", "broken", "noinit", "badinit"}

\* The calls of PluginManager.init, numbered in the order in which they are
\* made.  Call 1 is the call of bootstrap.
InitCalls == {1, 2}

HookNames == {"plugins:initialized", "app:start", "haikus:render", "haikus:filter"}

(***************************************************************************)
(* The plugin modules                                                      *)
(***************************************************************************)
\* typeof plugin.init
InitType(m) ==
  CASE m = "noinit" -> "undefined"
    [] m = "badinit" -> "string"
    [] OTHER -> "function"

\* typeof plugin.init === 'function'
HasInit(m) == InitType(m) = "function"

\* plugin.metadata || {}
MetadataOf(m) ==
  IF m \in RepoModules THEN <<m, "1.0.0">> ELSE <<>>

\* The pluginManager.addMiddleware calls of a module's init, in order.
InitMiddleware(m) ==
  CASE m = "logger" -> <<"loggerMiddleware">>
    [] m = "analytics" -> <<"analyticsMiddleware">>
    [] m = "cors" -> <<"corsMiddleware">>
    [] m = "rate-limiter" -> <<"rateLimitMiddleware">>
    [] OTHER -> <<>>

\* The pluginManager.registerHook calls of a module's init, in order.
InitHooks(m) ==
  CASE m = "logger" -> << <<"app:start", "loggerStarted">> >>
    [] m = "haiku-filter" -> << <<"haikus:render", "renderMeta">>,
                                <<"haikus:filter", "filterImage">> >>
    [] m = "watcher" -> << <<"plugins:initialized", "inc">>,
                           <<"plugins:initialized", "observe">> >>
    [] OTHER -> <<>>

\* The routes of api-routes with /api/haikus/:id registered before
\* /api/haikus/random.
InitRoutes_idfirst(m) ==
  CASE m = "analytics" -> <<"/api/analytics">>
    [] m = "api-routes" -> <<"/api/haikus", "/api/haikus/:id",
                             "/api/haikus/random", "/api/health">>
    [] m = "rate-limiter" -> <<"/api/rate-limit/status">>
    [] OTHER -> <<>>

\* The app.get calls of a module's init, in order.
InitRoutes(m) ==
  CASE m = "analytics" -> <<"/api/analytics">>
    [] m = "api-routes" -> <<"/api/haikus", "/api/haikus/random",
                             "/api/haikus/:id", "/api/health">>
    [] m = "rate-limiter" -> <<"/api/rate-limit/status">>
    [] OTHER -> <<>>

\* The promise returned by a module's init rejects.
InitRejects(m) == m = "broken"

(***************************************************************************)
(* Helpers on the state                                                    *)
(***************************************************************************)
RegisteredNames(ps) == {ps[i].name : i \in 1..Len(ps)}

\* this.plugins.has(name)
Has(ps, name) == name \in RegisteredNames(ps)

\* Index of the entry of a registered name.
IndexOf(ps, name) == CHOOSE i \in 1..Len(ps) : ps[i].name = name

RouteLayer(path) == [kind |-> "route", id |-> path]
MwLayer(fn) == [kind |-> "use", id |-> fn]

RECURSIVE PushHooks(_, _)
\* registerHook applied to each <<hookName, callback>> of a sequence
PushHooks(hk, regs) ==
  IF regs = <<>> THEN hk
  ELSE PushHooks([hk EXCEPT ![regs[1][1]] = Append(@, regs[1][2])], Tail(regs))

RECURSIVE PushRoutes(_, _)
PushRoutes(stk, paths) ==
  IF paths = <<>> THEN stk
  ELSE PushRoutes(Append(stk, RouteLayer(paths[1])), Tail(paths))

(***************************************************************************)
(* Hook callbacks and the values they are run on                           *)
(***************************************************************************)
\* Values passed through a hook are 0..MaxValue; Undefined is JavaScript's
\* undefined.
MaxValue == 2

Values == 0..MaxValue

Undefined == -1

\* The haikus of haikus.json, as the value the GET / handler passes to
\* runHook('haikus:render', haikus), and the { app } that init passes.
Haikus == 1

AppData == 0

\* Callbacks a caller registers: "inc" and "dbl" return a transformed value,
\* "observe" returns undefined, "fail" throws (or returns a promise that
\* rejects).  "loggerStarted" is the 'app:start' callback of the logger plugin
\* (it returns its argument), "renderMeta" and "filterImage" the callbacks of
\* the haiku-filter plugin (a new list with fields added to each haiku, and
\* its argument when no filter is given).  "rereg" is a callback that calls
\* registerHook(hookName, itself) for the hook it runs on and returns what
\* "inc" returns.
Callbacks == {"inc", "dbl", "observe", "fail", "rereg"}

\* The callback calls registerHook for the hook it is run on, with itself.
CallbackRegisters(cb) == cb = "rereg"

CallbackThrows(cb) == cb = "fail"

CallbackOutput(cb, v) ==
  CASE cb = "inc" -> (v + 1) % (MaxValue + 1)
    [] cb = "rereg" -> (v + 1) % (MaxValue + 1)
    [] cb = "dbl" -> (2 * v) % (MaxValue + 1)
    [] cb = "loggerStarted" -> v
    [] cb = "filterImage" -> v
    [] cb = "renderMeta" -> (v + 1) % (MaxValue + 1)
    [] OTHER -> Undefined

\* Hook names callers register callbacks for and run.
HookInputs == {"haikus:render", "haikus:filter"}

\* Bound on the number of callbacks registered by callers.
MaxHookLen == 3

\* Bound on the length of a hook's list in the state: of a list that a
\* running loop has made longer, the last MaxListLen entries are kept (the
\* entry dropped is one that this loop has passed), and the positions in the
\* list count from the first entry kept.
MaxListLen == 5

RECURSIVE SumLen(_, _)
SumLen(hk, hs) ==
  IF hs = {} THEN 0
  ELSE LET h == CHOOSE x \in hs : TRUE IN Len(hk[h]) + SumLen(hk, hs \ {h})

\* The calls of runHook: 0 is a call made by a caller of the manager (the
\* GET / handler among them), c in InitCalls the call that init call c makes.
Runs == {0} \cup InitCalls \cup {3}

\* The call runHook('app:start', { port, server }) of the listen callback.
AppStartRun == 3

IdleRun == [pc |-> "idle", hook |-> "", i |-> 0, data |-> 0, result |-> 0, client |-> ""]

\* The addresses requests come from (req.ip), the keys of requestCounts.
Clients == {"10.0.0.1", "10.0.0.2"}

\* No request of a key has reached the rate limiter.
NoWindow == [since |-> -1, n |-> 0]

\* A key that requestCounts does not hold.
NoEntry == [count |-> 0, resetTime |-> 0]

\* No request has been dispatched.
NoRequest ==
  [path |-> "", method |-> "", client |-> "", status |-> 0, handler |-> "",
   passed |-> <<>>, headers |-> {}, index |-> -1, data |-> -1]

InitManager ==
  /\ plugins = <<>>
  /\ hooks = [h \in HookNames |-> <<>>]
  /\ middleware = <<>>
  /\ initialized = FALSE
  /\ stack = <<MwLayer("static"), MwLayer("json")>>
  /\ initPc = [c \in InitCalls |-> "idle"]
  /\ initIdx = [c \in InitCalls |-> 0]
  /\ hookRuns = 0
  /\ invoked = <<>>
  /\ skipped = {}
  /\ inflight = {}
  /\ run = [r \in Runs |-> IdleRun]
  /\ trace = [r \in Runs |-> <<>>]
  /\ cbPending = {}
  /\ response = "none"
  /\ threw = FALSE
  /\ files = <<>>
  /\ loadIdx = 0
  /\ loaded = <<>>
  /\ loadFailed = <<>>
  /\ bootPc = "start"
  /\ listening = FALSE
  /\ error = ""
  /\ requestCounts = [c \in Clients |-> NoEntry]
  /\ now = 0
  /\ res = NoRequest
  /\ admitted = [c \in Clients |-> NoWindow]
  /\ uncleaned = [c \in Clients |-> NoEntry]

\* A manager constructed by a caller that drives it itself.
Init ==
  /\ InitManager
  /\ dirExists = FALSE
  /\ dir = <<>>

(***************************************************************************)
(* PluginManager.register, enable, disable                                 *)
(***************************************************************************)
\* register throws: the name is taken, or the plugin has no init function.
RegisterThrows(ps, name, plugin) == Has(ps, name) \/ ~HasInit(plugin)

\* this.plugins.set(name, { instance, enabled: true, metadata }) for a new name
Registered(ps, name, plugin) ==
  Append(ps, [name |-> name, instance |-> plugin, enabled |-> TRUE,
              metadata |-> MetadataOf(plugin)])

\* The message of the error register throws: the test of the name comes first.
RegisterError(ps, name, plugin) ==
  IF Has(ps, name) THEN "already registered" ELSE "must have an init function"

\* register as Map.set without the has() test: a taken name is overwritten.
register_overwrite(name, plugin) ==
  /\ IF ~HasInit(plugin)
     THEN /\ plugins' = plugins
          /\ threw' = TRUE
          /\ error' = "must have an init function"
     ELSE /\ plugins' =
               IF Has(plugins, name)
               THEN [plugins EXCEPT ![IndexOf(plugins, name)] =
                       [name |-> name, instance |-> plugin, enabled |-> TRUE,
                        metadata |-> MetadataOf(plugin)]]
               ELSE Registered(plugins, name, plugin)
          /\ threw' = FALSE
          /\ error' = ""
  /\ UNCHANGED <<hooks, middleware, initialized, stack>>
  /\ UNCHANGED <<initVars, runVars, bootVars, reqVars>>

\* register without the test of typeof plugin.init.
register_anyinit(name, plugin) ==
  /\ IF Has(plugins, name)
     THEN /\ plugins' = plugins
          /\ threw' = TRUE
          /\ error' = "already registered"
     ELSE /\ plugins' = Registered(plugins, name, plugin)
          /\ threw' = FALSE
          /\ error' = ""
  /\ UNCHANGED <<hooks, middleware, initialized, stack>>
  /\ UNCHANGED <<initVars, runVars, bootVars, reqVars>>

register(name, plugin) ==
  /\ IF RegisterThrows(plugins, name, plugin)
     THEN /\ plugins' = plugins
          /\ threw' = TRUE
          /\ error' = RegisterError(plugins, name, plugin)
     ELSE /\ plugins' = Registered(plugins, name, plugin)
          /\ threw' = FALSE
          /\ error' = ""
  /\ UNCHANGED <<hooks, middleware, initialized, stack>>
  /\ UNCHANGED <<initVars, runVars, bootVars, reqVars>>

\* enable and disable as delete and set: the record moves to the end of the
\* Map.
SetEnabled_reinsert(op, name, flag) ==
  /\ IF ~Has(plugins, name)
     THEN /\ plugins' = plugins
          /\ threw' = TRUE
          /\ error' = "not found"
     ELSE /\ plugins' =
               Append(SelectSeq(plugins, LAMBDA p : p.name # name),
                      [plugins[IndexOf(plugins, name)] EXCEPT !.enabled = flag])
          /\ threw' = FALSE
          /\ error' = ""
  /\ UNCHANGED <<hooks, middleware, initialized, stack>>
  /\ UNCHANGED <<initVars, runVars, bootVars, reqVars>>

\* enable and disable as an upsert: an unknown name gets a record.
SetEnabled_upsert(op, name, flag) ==
  /\ plugins' =
       IF Has(plugins, name)
       THEN [plugins EXCEPT ![IndexOf(plugins, name)].enabled = flag]
       ELSE Append(plugins, [name |-> name, instance |-> "noinit",
                             enabled |-> flag, metadata |-> <<>>])
  /\ threw' = FALSE
  /\ error' = ""
  /\ UNCHANGED <<hooks, middleware, initialized, stack>>
  /\ UNCHANGED <<initVars, runVars, bootVars, reqVars>>

SetEnabled(op, name, flag) ==
  /\ IF ~Has(plugins, name)
     THEN /\ plugins' = plugins
          /\ threw' = TRUE
          /\ error' = "not found"
     ELSE /\ plugins' = [plugins EXCEPT ![IndexOf(plugins, name)].enabled = flag]
          /\ threw' = FALSE
          /\ error' = ""
  /\ UNCHANGED <<hooks, middleware, initialized, stack>>
  /\ UNCHANGED <<initVars, runVars, bootVars, reqVars>>

enable(name) == SetEnabled("enable", name, TRUE)

disable(name) == SetEnabled("disable", name, FALSE)

\* list(): one { name, enabled, metadata } per entry of the Map, in the order
\* of its iteration.
list ==
  [k \in 1..Len(plugins) |->
     [name |-> plugins[k].name, enabled |-> plugins[k].enabled,
      metadata |-> plugins[k].metadata]]

(***************************************************************************)
(* PluginManager.registerHook, runHook                                     *)
(***************************************************************************)
registerHook(hookName, callback) ==
  /\ SumLen(hooks, HookInputs) < MaxHookLen
  /\ hooks' = [hooks EXCEPT ![hookName] = Append(@, callback)]
  /\ threw' = FALSE
  /\ error' = ""
  /\ UNCHANGED reqVars
  /\ UNCHANGED <<plugins, middleware, initialized, stack>>
  /\ UNCHANGED <<initVars, runVars, bootVars>>

\* Settle without the test for undefined.
Settle_assign(cb, result) ==
  IF CallbackThrows(cb) THEN result ELSE CallbackOutput(cb, result)

\* The value runHook goes on with when the awaited callback has settled.
Settle(cb, result) ==
  IF CallbackThrows(cb) THEN result
  ELSE IF CallbackOutput(cb, result) # Undefined THEN CallbackOutput(cb, result)
  ELSE result

\* The for-of loop of runHook from callback i on, with the current value
\* result, up to its next suspension: it calls callback i and awaits it, or
\* leaves the loop and returns result.  The loop iterates the hook's array
\* itself: what the called callback pushes to it is iterated too.
RunLoop(r, rec, i, result, pending) ==
  IF i <= Len(hooks[rec.hook])
  THEN LET cb == hooks[rec.hook][i]
           drop == CallbackRegisters(cb) /\ Len(hooks[rec.hook]) = MaxListLen
           j == IF drop THEN i - 1 ELSE i
           called == IF i = 1 THEN <<>> ELSE trace[r]
       IN
       /\ run' = [run EXCEPT ![r] = [rec EXCEPT !.pc = "await", !.i = j,
                                                !.result = result]]
       /\ trace' = [trace EXCEPT ![r] =
                      Append(IF drop THEN Tail(called) ELSE called, <<cb, result>>)]
       /\ cbPending' = pending \cup {<<r, j>>}
       /\ hooks' = IF CallbackRegisters(cb)
                   THEN [hooks EXCEPT ![rec.hook] =
                           Append(IF drop THEN Tail(@) ELSE @, cb)]
                   ELSE hooks
  ELSE /\ run' = [run EXCEPT ![r] = [rec EXCEPT !.pc = "returned", !.i = i,
                                                !.result = result]]
       /\ trace' = [trace EXCEPT ![r] = IF i = 1 THEN <<>> ELSE @]
       /\ cbPending' = pending
       /\ hooks' = hooks

\* A call runHook(hookName, data) by a caller of the manager.
runHook(hookName, data, client) ==
  /\ run[0].pc \in {"idle", "returned", "raised"}
  /\ run[0].client = "GET /" => response # "none"
  /\ RunLoop(0, [IdleRun EXCEPT !.hook = hookName, !.data = data,
                                !.client = client], 1, data, cbPending)
  /\ hookRuns' = IF hookName = "plugins:initialized" THEN hookRuns + 1 ELSE hookRuns
  /\ response' = IF client = "GET /" THEN "none" ELSE response
  /\ threw' = FALSE
  /\ error' = ""
  /\ UNCHANGED reqVars
  /\ UNCHANGED <<plugins, middleware, initialized, stack>>
  /\ UNCHANGED <<initPc, initIdx, invoked, skipped, inflight, bootVars>>

\* RunResume without the try/catch around the callback: its error leaves
\* runHook.
RunResume_nocatch(r) ==
  /\ run[r].pc = "await"
  /\ IF CallbackThrows(hooks[run[r].hook][run[r].i])
     THEN /\ run' = [run EXCEPT ![r].pc = "raised"]
          /\ cbPending' = cbPending \ {<<r, run[r].i>>}
          /\ UNCHANGED <<trace, hooks>>
     ELSE RunLoop(r, run[r], run[r].i + 1,
                  Settle(hooks[run[r].hook][run[r].i], run[r].result),
                  cbPending \ {<<r, run[r].i>>})
  /\ threw' = FALSE
  /\ error' = ""
  /\ UNCHANGED reqVars
  /\ UNCHANGED <<plugins, middleware, initialized, stack>>
  /\ UNCHANGED <<initVars, response, bootVars>>

\* The awaited callback of a run settles: the run goes on with the loop.
RunResume(r) ==
  /\ run[r].pc = "await"
  /\ RunLoop(r, run[r], run[r].i + 1,
             Settle(hooks[run[r].hook][run[r].i], run[r].result),
             cbPending \ {<<r, run[r].i>>})
  /\ threw' = FALSE
  /\ error' = ""
  /\ UNCHANGED reqVars
  /\ UNCHANGED <<plugins, middleware, initialized, stack>>
  /\ UNCHANGED <<initVars, response, bootVars>>

\* GET /: the handler calls runHook('haikus:render', haikus) and awaits it.
HandleRoot == runHook("haikus:render", Haikus, "GET /")

\* The handler of GET / resumes: it renders the page with the value runHook
\* returned, or answers 500 if runHook raised.
RootRespond ==
  /\ run[0].client = "GET /"
  /\ run[0].pc \in {"returned", "raised"}
  /\ response = "none"
  /\ response' = IF run[0].pc = "returned" THEN "rendered" ELSE "500"
  /\ threw' = FALSE
  /\ error' = ""
  /\ UNCHANGED reqVars
  /\ UNCHANGED <<regVars, initVars, run, trace, cbPending, bootVars>>

(***************************************************************************)
(* PluginManager.init                                                      *)
(***************************************************************************)
\* The loop without the test of pluginData.enabled.
NextEnabled_all(ps, i) == i

RECURSIVE NextEnabled(_, _)
\* The for-of loop over this.plugins from entry i on: the first entry that is
\* enabled, or Len + 1 when the iterator is exhausted.
NextEnabled(ps, i) ==
  IF i > Len(ps) THEN i
  ELSE IF ps[i].enabled THEN i
  ELSE NextEnabled(ps, i + 1)

\* The loop of init without the await: the inits of all the enabled plugins
\* from entry i on are started at once.
InitLoop_parallel(c, i, pending) ==
  LET todo == SelectSeq([k \in 1..Len(plugins) |-> k],
                        LAMBDA k : k >= i /\ plugins[k].enabled)
      started == [k \in 1..Len(todo) |-> <<c, plugins[todo[k]].name>>]
  IN
  /\ Len(todo) > 0
  /\ invoked' = invoked \o started
  /\ inflight' = pending \cup {started[k] : k \in 1..Len(started)}
  /\ initPc' = [initPc EXCEPT ![c] = "await"]
  /\ initIdx' = [initIdx EXCEPT ![c] = todo[Len(todo)]]
  /\ UNCHANGED <<middleware, hooks, stack, skipped, initialized, hookRuns,
                 run, trace, cbPending>>

\* The loop of init from entry i on, up to its next suspension: it invokes the
\* init of the next enabled plugin and awaits it, or leaves the loop, sets
\* initialized and calls runHook('plugins:initialized', { app }), which it
\* awaits.
InitLoop(c, i, pending) ==
  LET j == NextEnabled(plugins, i) IN
  IF j <= Len(plugins)
  THEN LET m == plugins[j].instance IN
       /\ middleware' = middleware \o InitMiddleware(m)
       /\ hooks' = PushHooks(hooks, InitHooks(m))
       /\ stack' = PushRoutes(stack, InitRoutes(m))
       /\ initPc' = [initPc EXCEPT ![c] = "await"]
       /\ initIdx' = [initIdx EXCEPT ![c] = j]
       /\ invoked' = Append(invoked, <<c, plugins[j].name>>)
       /\ skipped' = skipped \cup {<<c, plugins[k].name>> : k \in i..(j - 1)}
       /\ inflight' = pending \cup {<<c, plugins[j].name>>}
       /\ UNCHANGED <<initialized, hookRuns, run, trace, cbPending>>
  ELSE /\ initialized' = TRUE
       /\ hookRuns' = hookRuns + 1
       /\ RunLoop(c, [IdleRun EXCEPT !.hook = "plugins:initialized",
                                     !.data = AppData, !.client = "init"],
                  1, AppData, cbPending)
       /\ initPc' = [initPc EXCEPT ![c] = "hook"]
       /\ initIdx' = [initIdx EXCEPT ![c] = j]
       /\ skipped' = skipped \cup {<<c, plugins[k].name>> : k \in i..(j - 1)}
       /\ inflight' = pending
       /\ UNCHANGED <<middleware, stack, invoked>>

\* init without the test of this.initialized.
InitCall_noguard(c) ==
  /\ initPc[c] = "idle"
  /\ \A k \in InitCalls : k < c => initPc[k] # "idle"
  /\ InitLoop(c, 1, inflight)
  /\ threw' = FALSE
  /\ error' = ""
  /\ UNCHANGED reqVars
  /\ UNCHANGED <<plugins, response, bootVars>>

\* A call of init, up to its first suspension or its return.  Call c is made
\* after the calls numbered below it.
InitCall(c) ==
  /\ initPc[c] = "idle"
  /\ \A k \in InitCalls : k < c => initPc[k] # "idle"
  /\ IF initialized
     THEN /\ initPc' = [initPc EXCEPT ![c] = "done"]
          /\ UNCHANGED <<middleware, hooks, stack, initialized, hookRuns,
                         initIdx, invoked, skipped, inflight, run, trace,
                         cbPending>>
     ELSE InitLoop(c, 1, inflight)
  /\ threw' = FALSE
  /\ error' = ""
  /\ UNCHANGED reqVars
  /\ UNCHANGED <<plugins, response, bootVars>>

\* InitResume with a catch that logs and does not re-throw.
InitResume_swallow(c) ==
  /\ initPc[c] = "await"
  /\ InitLoop(c, initIdx[c] + 1, inflight \ {<<c, plugins[initIdx[c]].name>>})
  /\ threw' = FALSE
  /\ error' = ""
  /\ UNCHANGED reqVars
  /\ UNCHANGED <<plugins, response, bootVars>>

\* The awaited init of a plugin settles: init goes on with the loop, or logs
\* the error and re-throws it.
InitResume(c) ==
  /\ initPc[c] = "await"
  /\ LET p == plugins[initIdx[c]] IN
     IF InitRejects(p.instance)
     THEN /\ initPc' = [initPc EXCEPT ![c] = "thrown"]
          /\ inflight' = inflight \ {<<c, p.name>>}
          /\ threw' = FALSE
          /\ error' = ""
          /\ UNCHANGED <<middleware, hooks, stack, initialized, hookRuns,
                         initIdx, invoked, skipped, run, trace, cbPending>>
     ELSE /\ InitLoop(c, initIdx[c] + 1, inflight \ {<<c, p.name>>})
          /\ threw' = FALSE
          /\ error' = ""
  /\ UNCHANGED <<plugins, response, bootVars, reqVars>>

\* The awaited runHook('plugins:initialized') has returned: init returns.
InitReturn(c) ==
  /\ initPc[c] = "hook"
  /\ run[c].pc = "returned"
  /\ initPc' = [initPc EXCEPT ![c] = "done"]
  /\ threw' = FALSE
  /\ error' = ""
  /\ UNCHANGED reqVars
  /\ UNCHANGED <<regVars, initIdx, hookRuns, invoked, skipped, inflight,
                 runVars, bootVars>>

(***************************************************************************)
(* The plugins directory                                                   *)
(***************************************************************************)
\* The file names a plugins directory may hold, in alphabetical order.
\* analytics.js and logger.js are files of the repository; logger-copy.js
\* exports the logger module again (the same metadata.name), broken.js a
\* module whose init rejects, noinit.js a module without init; requiring bad.js
\* throws; notes.md is no .js file; watcher.js exports the module that
\* registers callbacks for 'plugins:initialized'.
FileNames == <<"analytics.js", "bad.js", "broken.js", "logger-copy.js",
               "logger.js", "noinit.js", "notes.md", "watcher.js">>

FileUniverse == {FileNames[k] : k \in 1..Len(FileNames)}

\* Position of a file name in the alphabetical order.
FileRank(f) == CHOOSE k \in 1..Len(FileNames) : FileNames[k] = f

\* Bound on the number of files in the directory.
MaxFiles == 3

\* The listings fs.readdirSync may return: the files of the directory, each
\* once, in any order.
Listings ==
  {l \in UNION {[1..n -> FileUniverse] : n \in 0..MaxFiles} :
     \A i, j \in 1..Len(l) : i # j => l[i] # l[j]}

\* file.endsWith('.js')
EndsWithJs(f) == f # "notes.md"

\* require(pluginPath) throws
ImportFails(f) == f = "bad.js"

\* require(pluginPath)
FileModule(f) ==
  CASE f = "analytics.js" -> "analytics"
    [] f = "logger.js" -> "logger"
    [] f = "logger-copy.js" -> "logger"
    [] f = "broken.js" -> "broken"
    [] f = "watcher.js" -> "watcher"
    [] f = "api-routes.js" -> "api-routes"
    [] f = "cors.js" -> "cors"
    [] f = "haiku-filter.js" -> "haiku-filter"
    [] f = "rate-limiter.js" -> "rate-limiter"
    [] OTHER -> "noinit"

\* pluginPath.split('/').pop().replace('.js', '')
BaseName(f) ==
  CASE f = "analytics.js" -> "analytics"
    [] f = "logger.js" -> "logger"
    [] f = "logger-copy.js" -> "logger-copy"
    [] f = "broken.js" -> "broken"
    [] f = "noinit.js" -> "noinit"
    [] f = "bad.js" -> "bad"
    [] f = "watcher.js" -> "watcher"
    [] f = "api-routes.js" -> "api-routes"
    [] f = "cors.js" -> "cors"
    [] f = "haiku-filter.js" -> "haiku-filter"
    [] f = "rate-limiter.js" -> "rate-limiter"
    [] OTHER -> f

\* plugin.metadata?.name || the base name of the file
PluginName(f) ==
  IF MetadataOf(FileModule(f)) # <<>> THEN MetadataOf(FileModule(f))[1]
  ELSE BaseName(f)

\* load(pluginPath) throws: the import fails or register throws.
LoadThrows(ps, f) ==
  ImportFails(f) \/ RegisterThrows(ps, PluginName(f), FileModule(f))

(***************************************************************************)
(* bootstrap and PluginManager.loadFromDirectory                           *)
(***************************************************************************)
\* loadFromDirectory without the existsSync test: readdirSync throws for a
\* missing directory, and the error reaches the catch of bootstrap.
BootStart_nocheck ==
  /\ bootPc = "start"
  /\ IF dirExists
     THEN /\ bootPc' = "plugins"
          /\ files' = SelectSeq(dir, EndsWithJs)
          /\ loadIdx' = 1
     ELSE /\ bootPc' = "exited"
          /\ UNCHANGED <<files, loadIdx>>
  /\ threw' = FALSE
  /\ error' = ""
  /\ UNCHANGED reqVars
  /\ UNCHANGED <<regVars, initVars, runVars, dirExists, dir, loaded, loadFailed,
                 listening>>

\* bootstrap calls loadFromDirectory: a missing directory is an empty set of
\* plugins; otherwise the .js files of the listing are loaded in its order.
BootStart ==
  /\ bootPc = "start"
  /\ bootPc' = "plugins"
  /\ files' = IF dirExists THEN SelectSeq(dir, EndsWithJs) ELSE <<>>
  /\ loadIdx' = 1
  /\ threw' = FALSE
  /\ error' = ""
  /\ UNCHANGED reqVars
  /\ UNCHANGED <<regVars, initVars, runVars, dirExists, dir, loaded, loadFailed,
                 listening>>

\* LoadFile without the try/catch of the loop: the error of load leaves
\* loadFromDirectory, and bootstrap exits.
LoadFile_abort ==
  /\ bootPc = "plugins"
  /\ initPc[1] = "idle"
  /\ loadIdx <= Len(files)
  /\ LET f == files[loadIdx] IN
     IF LoadThrows(plugins, f)
     THEN /\ bootPc' = "exited"
          /\ UNCHANGED <<plugins, loaded, loadFailed, loadIdx>>
     ELSE /\ plugins' = Registered(plugins, PluginName(f), FileModule(f))
          /\ loaded' = Append(loaded, f)
          /\ loadIdx' = loadIdx + 1
          /\ UNCHANGED <<loadFailed, bootPc>>
  /\ threw' = FALSE
  /\ error' = ""
  /\ UNCHANGED reqVars
  /\ UNCHANGED <<hooks, middleware, initialized, stack, initVars, runVars,
                 dirExists, dir, files, listening>>

\* One round of the loop of loadFromDirectory: await this.load(file), whose
\* error is caught and logged.
LoadFile ==
  /\ bootPc = "plugins"
  /\ initPc[1] = "idle"
  /\ loadIdx <= Len(files)
  /\ LET f == files[loadIdx] IN
     IF LoadThrows(plugins, f)
     THEN /\ loadFailed' = Append(loadFailed, f)
          /\ UNCHANGED <<plugins, loaded>>
     ELSE /\ plugins' = Registered(plugins, PluginName(f), FileModule(f))
          /\ loaded' = Append(loaded, f)
          /\ UNCHANGED loadFailed
  /\ loadIdx' = loadIdx + 1
  /\ threw' = FALSE
  /\ error' = ""
  /\ UNCHANGED reqVars
  /\ UNCHANGED <<hooks, middleware, initialized, stack, initVars, runVars,
                 dirExists, dir, files, bootPc, listening>>

\* loadFromDirectory has returned: bootstrap calls init and awaits it.
BootInit ==
  /\ bootPc = "plugins"
  /\ loadIdx > Len(files)
  /\ InitCall(1)

\* getMiddleware(): the array addMiddleware pushes to.
getMiddleware == middleware

RECURSIVE Reverse(_)
Reverse(seq) == IF seq = <<>> THEN <<>> ELSE Append(Reverse(Tail(seq)), seq[1])

\* The middleware installed last to first.
Installed_reversed(mw) ==
  [k \in 1..Len(mw) |-> MwLayer(Reverse(mw)[k])]
    \o <<RouteLayer("/"), RouteLayer("/api/plugins"), MwLayer("errorHandler")>>

\* The layers bootstrap adds once init has returned: the plugin middleware in
\* the order of getMiddleware(), the routes / and /api/plugins, the error
\* handler.
Installed(mw) ==
  [k \in 1..Len(mw) |-> MwLayer(mw[k])]
    \o <<RouteLayer("/"), RouteLayer("/api/plugins"), MwLayer("errorHandler")>>

\* bootstrap goes on whether init returned or threw.
BootInstall_anyway ==
  /\ bootPc = "plugins"
  /\ initPc[1] \in {"done", "thrown"}
  /\ stack' = stack \o Installed(middleware)
  /\ bootPc' = "listen"
  /\ threw' = FALSE
  /\ error' = ""
  /\ UNCHANGED reqVars
  /\ UNCHANGED <<plugins, hooks, middleware, initialized, initVars, runVars,
                 dirExists, dir, files, loadIdx, loaded, loadFailed, listening>>

\* bootstrap with runHook('app:start') called after app.listen() instead of in
\* its callback.
BootInstall_starthook ==
  /\ bootPc = "plugins"
  /\ initPc[1] = "done"
  /\ stack' = stack \o Installed(getMiddleware)
  /\ bootPc' = "listen"
  /\ RunLoop(AppStartRun, [IdleRun EXCEPT !.hook = "app:start", !.data = AppData,
                                          !.client = "listen"],
             1, AppData, cbPending)
  /\ threw' = FALSE
  /\ error' = ""
  /\ UNCHANGED reqVars
  /\ UNCHANGED <<plugins, middleware, initialized, initVars, response,
                 dirExists, dir, files, loadIdx, loaded, loadFailed, listening>>

\* init has returned: bootstrap installs the middleware and the routes and
\* calls app.listen.
BootInstall ==
  /\ bootPc = "plugins"
  /\ initPc[1] = "done"
  /\ stack' = stack \o Installed(getMiddleware)
  /\ bootPc' = "listen"
  /\ threw' = FALSE
  /\ error' = ""
  /\ UNCHANGED reqVars
  /\ UNCHANGED <<plugins, hooks, middleware, initialized, initVars, runVars,
                 dirExists, dir, files, loadIdx, loaded, loadFailed, listening>>

\* The callback of app.listen: the server listens, and runHook('app:start') is
\* called (and not awaited).
BootListening ==
  /\ bootPc = "listen"
  /\ bootPc' = "serving"
  /\ listening' = TRUE
  /\ RunLoop(AppStartRun, [IdleRun EXCEPT !.hook = "app:start", !.data = AppData,
                                          !.client = "listen"],
             1, AppData, cbPending)
  /\ threw' = FALSE
  /\ error' = ""
  /\ UNCHANGED reqVars
  /\ UNCHANGED <<plugins, middleware, initialized, stack>>
  /\ UNCHANGED <<initVars, response, dirExists, dir, files, loadIdx, loaded,
                 loadFailed>>

\* init has thrown: the catch of bootstrap logs the error and calls
\* process.exit(1).
BootCatch ==
  /\ bootPc = "plugins"
  /\ initPc[1] = "thrown"
  /\ bootPc' = "exited"
  /\ threw' = FALSE
  /\ error' = ""
  /\ UNCHANGED reqVars
  /\ UNCHANGED <<regVars, initVars, runVars, dirExists, dir, files, loadIdx,
                 loaded, loadFailed, listening>>

(***************************************************************************)
(* Requests: the layers of the app, the plugin middleware, the routes      *)
(***************************************************************************)
\* The plugin files of the repository, in alphabetical order.
RepoFiles == <<"analytics.js", "api-routes.js", "cors.js", "haiku-filter.js",
               "logger.js", "rate-limiter.js">>

\* The ids of the requests for a haiku by id, as the characters of
\* req.params.id: the first and the last index, the first index past the
\* end, a negative one, and two that are not numbers.
IdParams ==
  "/api/haikus/0" :> <<"0">> @@ "/api/haikus/4" :> <<"4">>
    @@ "/api/haikus/5" :> <<"5">> @@ "/api/haikus/-1" :> <<"-", "1">>
    @@ "/api/haikus/abc" :> <<"a", "b", "c">>
    @@ "/api/haikus/1abc" :> <<"1", "a", "b", "c">>
    @@ "/api/haikus/random" :> <<"r", "a", "n", "d", "o", "m">>

\* Paths of the requests: the routes of the app, a haiku by id, and a path
\* under /api/ and one outside it that no route has.
Paths == {"/", "/api/haikus", "/api/health", "/api/plugins", "/api/analytics",
          "/api/rate-limit/status", "/api/nothing", "/nothing"}
           \cup DOMAIN IdParams

\* The requests: a GET of every path, and the preflight (OPTIONS) of a plugin
\* route and of a route of bootstrap.
Requests ==
  {[path |-> p, method |-> "GET"] : p \in Paths}
    \cup {[path |-> p, method |-> "OPTIONS"] : p \in {"/api/haikus", "/api/plugins"}}

\* req.path.startsWith('/api/')
StartsWithApi(path) == path \notin {"/", "/nothing"}

\* The paths /api/haikus/<segment>, and req.params.id for them.
IdPaths == DOMAIN IdParams

IdParam(path) == IdParams[path]

\* The path of a route matches the path of a request.
RouteMatches(route, path) ==
  \/ route = path
  \/ route = "/api/haikus/:id" /\ path \in IdPaths

\* The decimal digits and their values.
Digits == {"0", "1", "2", "3", "4", "5", "6", "7", "8", "9"}

DigitOf(ch) ==
  CASE ch = "0" -> 0 [] ch = "1" -> 1 [] ch = "2" -> 2 [] ch = "3" -> 3
    [] ch = "4" -> 4 [] ch = "5" -> 5 [] ch = "6" -> 6 [] ch = "7" -> 7
    [] ch = "8" -> 8 [] ch = "9" -> 9

RECURSIVE LeadingDigits(_)
\* The digits a string starts with.
LeadingDigits(chars) ==
  IF chars # <<>> /\ Head(chars) \in Digits
  THEN <<Head(chars)>> \o LeadingDigits(Tail(chars))
  ELSE <<>>

RECURSIVE DecimalValue(_)
\* The number a string of digits denotes.
DecimalValue(digits) ==
  IF digits = <<>> THEN 0
  ELSE 10 * DecimalValue(SubSeq(digits, 1, Len(digits) - 1))
         + DigitOf(digits[Len(digits)])

\* parseInt(req.params.id): a number n, or NaN.  parseInt reads an optional
\* sign and the digits that follow it, and ignores what comes after them (the
\* strings here have no leading white space and no 0x prefix).
ParseInt(chars) ==
  LET signed == chars # <<>> /\ Head(chars) \in {"-", "+"}
      digits == LeadingDigits(IF signed THEN Tail(chars) ELSE chars)
  IN
  IF digits = <<>> THEN [nan |-> TRUE, n |-> 0]
  ELSE [nan |-> FALSE,
        n |-> IF signed /\ Head(chars) = "-" THEN 0 - DecimalValue(digits)
              ELSE DecimalValue(digits)]

\* haikus.length, and haikus[i] (the haikus are numbered from 10 on).
NumHaikus == 5

HaikuAt(i) == IF i \in 0..(NumHaikus - 1) THEN 10 + i ELSE Undefined

\* Math.random() is one of 0/RandomSteps .. (RandomSteps - 1)/RandomSteps;
\* Math.floor(Math.random() * haikus.length) for its numerator r.
RandomSteps == 5

RandomIndex(r) == (r * NumHaikus) \div RandomSteps

\* config.windowMs, config.maxRequests of the rate limiter
windowMs == 60000

maxRequests == 100

\* Bound on the requests counted past maxRequests in one window.
MaxExcess == 2

CorsHeaders == {"Access-Control-Allow-Origin", "Access-Control-Allow-Methods",
                "Access-Control-Allow-Headers"}

RateLimitHeaders == {"X-RateLimit-Limit", "X-RateLimit-Remaining",
                     "X-RateLimit-Reset"}

\* Counted with a window that ends windowMs after its start, not later.
Counted_inclusive(counts, key) ==
  IF counts[key] = NoEntry \/ now - counts[key].resetTime >= windowMs
  THEN [count |-> 1, resetTime |-> now]
  ELSE [counts[key] EXCEPT !.count = @ + 1]

\* The rate-limit middleware on a request under /api/: the entry of the key
\* after the request (a new window, or one more in the window).
Counted(counts, key) ==
  IF counts[key] = NoEntry \/ now - counts[key].resetTime > windowMs
  THEN [count |-> 1, resetTime |-> now]
  ELSE [counts[key] EXCEPT !.count = @ + 1]

\* A middleware function on request rq, with st the response and the
\* requestCounts so far: it sets headers, answers (status) or calls next()
\* (status stays 0).
Middleware(fn, rq, st) ==
  LET in == [st EXCEPT !.res.passed = Append(@, fn)] IN
  CASE fn = "corsMiddleware" ->
         [in EXCEPT !.res.headers = @ \cup CorsHeaders,
                    !.res.status = IF rq.method = "OPTIONS" THEN 200 ELSE 0,
                    !.res.handler = IF rq.method = "OPTIONS" THEN fn ELSE ""]
    [] fn = "rateLimitMiddleware" /\ StartsWithApi(rq.path) ->
         LET data == Counted(st.counts, rq.client) IN
         [in EXCEPT !.counts[rq.client] = data,
                    !.res.headers = @ \cup RateLimitHeaders,
                    !.res.status = IF data.count > maxRequests THEN 429 ELSE 0,
                    !.res.handler = IF data.count > maxRequests THEN fn ELSE ""]
    [] OTHER -> in

\* The handler of a route answers request rq.  The handler of / awaits
\* runHook before it answers: its status is set when it resumes.
Respond(route, rq, st) ==
  LET out == [st EXCEPT !.res.handler = route, !.res.status = 200] IN
  CASE route = "/api/haikus/random" ->
         [out EXCEPT !.res.index = RandomIndex(rq.random),
                     !.res.data = HaikuAt(RandomIndex(rq.random))]
    [] route = "/api/haikus/:id" ->
         LET id == ParseInt(IdParam(rq.path)) IN
         IF id.nan \/ id.n < 0 \/ id.n >= NumHaikus
         THEN [out EXCEPT !.res.status = 404]
         ELSE [out EXCEPT !.res.data = HaikuAt(id.n)]
    [] route = "/" -> [out EXCEPT !.res.status = 0]
    [] OTHER -> out

RECURSIVE Dispatch(_, _, _, _)
\* Express hands the request to the layers of the stack from layer k on, in
\* order: a middleware runs and answers or calls next(); a route whose method
\* and path match answers; with no layer left Express answers 404.
Dispatch(stk, k, rq, st) ==
  IF k > Len(stk)
  THEN [st EXCEPT !.res.status = 404, !.res.handler = "none"]
  ELSE IF stk[k].kind = "route"
  THEN IF rq.method = "GET" /\ RouteMatches(stk[k].id, rq.path)
       THEN Respond(stk[k].id, rq, st)
       ELSE Dispatch(stk, k + 1, rq, st)
  ELSE LET after == Middleware(stk[k].id, rq, st) IN
       IF after.res.status # 0 THEN after ELSE Dispatch(stk, k + 1, rq, after)

\* The requests under /api/ that the rate limiter passed on to next() since
\* the first of them, or since the first that came more than windowMs after
\* that one: the count for the key after one more request, passed on or not.
Admitted(adm, key, next) ==
  IF adm[key] = NoWindow \/ now - adm[key].since > windowMs
  THEN [since |-> now, n |-> IF next THEN 1 ELSE 0]
  ELSE [adm[key] EXCEPT !.n = @ + (IF next THEN 1 ELSE 0)]

\* The history after a request rq that the app has dispatched with outcome
\* out: it changes when the request reached the rate limiter under /api/.
Logged(adm, rq, out) ==
  IF StartsWithApi(rq.path)
     /\ \E k \in 1..Len(out.res.passed) : out.res.passed[k] = "rateLimitMiddleware"
  THEN [adm EXCEPT ![rq.client] =
          Admitted(adm, rq.client, out.res.handler # "rateLimitMiddleware")]
  ELSE adm

\* A request arrives at the listening server and is dispatched; random is the
\* value Math.random() gives if the handler calls it.
Request(path, method, client, random) ==
  /\ listening
  /\ LET rq == [path |-> path, method |-> method, client |-> client,
                random |-> random]
         out == Dispatch(stack, 1, rq,
                         [res |-> [NoRequest EXCEPT !.path = path,
                                                    !.method = method,
                                                    !.client = client],
                          counts |-> requestCounts])
     IN
     /\ \A c \in Clients : out.counts[c].count <= maxRequests + MaxExcess
     /\ res' = out.res
     /\ requestCounts' = out.counts
     /\ admitted' = Logged(admitted, rq, out)
     /\ uncleaned' = Dispatch(stack, 1, rq, [res |-> NoRequest,
                                             counts |-> uncleaned]).counts
     /\ IF out.res.handler = "/"
        THEN /\ run[0].pc \in {"idle", "returned"}
             /\ run[0].client = "GET /" => response # "none"
             /\ RunLoop(0, [IdleRun EXCEPT !.hook = "haikus:render",
                                           !.data = Haikus, !.client = "GET /"],
                        1, Haikus, cbPending)
             /\ response' = "none"
        ELSE UNCHANGED <<hooks, run, trace, cbPending, response>>
  /\ threw' = FALSE
  /\ error' = ""
  /\ now' = now
  /\ UNCHANGED <<plugins, middleware, initialized, stack, initVars, bootVars>>

\* Bound on Date.now().
MaxNow == 120001

\* The times between two events of the rate limiter: a window, to the
\* millisecond, and a millisecond more.
TickSteps == {windowMs, windowMs + 1}

\* Date.now() moves on by d ms.
Tick(d) ==
  /\ now + d <= MaxNow
  /\ now' = now + d
  /\ UNCHANGED <<requestCounts, res, admitted, uncleaned>>
  /\ UNCHANGED <<regVars, initVars, runVars, bootVars, threw, error>>

\* The paths of the requests the rate limiter is called on.
LimiterPaths == {"/api/haikus", "/"}

\* The middleware of the rate limiter is called on a request: it answers 429
\* or calls next() (the status stays 0).
rateLimitMiddleware(path, client) ==
  LET rq == [path |-> path, method |-> "GET", client |-> client, random |-> 0]
      out == Middleware("rateLimitMiddleware", rq,
                        [res |-> [NoRequest EXCEPT !.path = path,
                                                   !.method = "GET",
                                                   !.client = client],
                         counts |-> requestCounts])
  IN
  /\ \A c \in Clients : out.counts[c].count <= maxRequests + MaxExcess
  /\ res' = out.res
  /\ requestCounts' = out.counts
  /\ admitted' = Logged(admitted, rq, out)
  /\ uncleaned' = Middleware("rateLimitMiddleware", rq,
                             [res |-> NoRequest, counts |-> uncleaned]).counts
  /\ UNCHANGED <<now, regVars, initVars, runVars, bootVars, threw, error>>

\* cleanup that also deletes the entries that are windowMs old.
cleanup_inclusive ==
  /\ requestCounts' =
       [key \in Clients |->
          IF requestCounts[key] # NoEntry
             /\ now - requestCounts[key].resetTime >= windowMs
          THEN NoEntry
          ELSE requestCounts[key]]
  /\ UNCHANGED <<now, res, admitted, uncleaned>>
  /\ UNCHANGED <<regVars, initVars, runVars, bootVars, threw, error>>

\* The callback of setInterval deletes the entries that are older than
\* windowMs.
cleanup ==
  /\ requestCounts' =
       [key \in Clients |->
          IF requestCounts[key] # NoEntry
             /\ now - requestCounts[key].resetTime > windowMs
          THEN NoEntry
          ELSE requestCounts[key]]
  /\ UNCHANGED <<now, res, admitted, uncleaned>>
  /\ UNCHANGED <<regVars, initVars, runVars, bootVars, threw, error>>

(***************************************************************************)
(* Specifications                                                          *)
(***************************************************************************)
\* The manager under the calls of its callers: register, enable, disable and
\* init, in any order and interleaved with the suspensions of init.
Next ==
  \/ \E n \in Names, m \in Modules : register(n, m)
  \/ \E n \in Names : enable(n)
  \/ \E n \in Names : disable(n)
  \/ \E c \in InitCalls : InitCall(c)
  \/ \E c \in InitCalls : InitResume(c)
  \/ \E c \in InitCalls : InitReturn(c)
  \/ \E c \in InitCalls : RunResume(c)

Spec == Init /\ [][Next]_vars

\* The registry alone, under register, enable and disable calls with three
\* names.
RegistryNames == {"a", "b", "c"}

NextRegistry ==
  \/ \E n \in RegistryNames, m \in Modules : register(n, m)
  \/ \E n \in RegistryNames : enable(n)
  \/ \E n \in RegistryNames : disable(n)

SpecRegistry == Init /\ [][NextRegistry]_vars

\* The hook table under registerHook and runHook calls and GET / requests.
NextHook ==
  \/ \E h \in HookInputs, cb \in Callbacks : registerHook(h, cb)
  \/ \E h \in HookInputs, v \in Values : runHook(h, v, "call")
  \/ HandleRoot
  \/ RunResume(0)
  \/ RootRespond

SpecHook == Init /\ [][NextHook]_vars

\* The same, with the scheduling of Node: the continuation of a run whose
\* awaited callback has settled is run.
SpecHookFair == Init /\ [][NextHook]_vars /\ WF_vars(RunResume(0))

\* The server: bootstrap on a plugins directory of any content, listed in any
\* order.
InitBoot ==
  /\ InitManager
  /\ dirExists \in BOOLEAN
  /\ dir \in IF dirExists THEN Listings ELSE {<<>>}

BootSteps ==
  \/ BootStart
  \/ LoadFile
  \/ BootInit
  \/ InitResume(1)
  \/ RunResume(1)
  \/ InitReturn(1)
  \/ BootInstall
  \/ BootListening
  \/ RunResume(AppStartRun)
  \/ BootCatch

NextBoot == BootSteps

\* Node runs every continuation that is queued: no step of bootstrap that is
\* ready waits forever.
SpecBoot == InitBoot /\ [][NextBoot]_vars /\ WF_vars(BootSteps)

\* The server of the repository: bootstrap on its plugins directory, listed
\* in alphabetical order or in the reverse order, and then requests.
ServerListings == {RepoFiles, Reverse(RepoFiles)}

InitServer ==
  /\ InitManager
  /\ dirExists = TRUE
  /\ dir \in ServerListings

\* No plugin of the repository has an init that rejects: the catch of
\* bootstrap is never reached.
NextServer ==
  \/ BootStart
  \/ LoadFile
  \/ BootInit
  \/ InitResume(1)
  \/ InitReturn(1)
  \/ BootInstall
  \/ BootListening
  \/ RunResume(AppStartRun)
  \/ \E rq \in Requests, c \in {"10.0.0.1"} :
       \E r \in (IF rq.path = "/api/haikus/random" /\ rq.method = "GET"
                 THEN 0..(RandomSteps - 1) ELSE {0}) :
         Request(rq.path, rq.method, c, r)
  \/ RunResume(0)
  \/ RootRespond

SpecServer == InitServer /\ [][NextServer]_vars

\* Bound on the requests counted in one window of the second client.
MaxPeer == 2

\* The rate limiter after its init: its middleware under the requests of two
\* clients, its interval callback, and the clock.
NextLimiter ==
  \/ \E p \in LimiterPaths, c \in Clients :
       /\ c = "10.0.0.2" /\ StartsWithApi(p) =>
            Counted(requestCounts, c).count <= MaxPeer
       /\ rateLimitMiddleware(p, c)
  \/ \E d \in TickSteps : Tick(d)
  \/ cleanup

SpecLimiter == Init /\ [][NextLimiter]_vars

(***************************************************************************)
(* Properties of register, init, enable and disable (under Spec)           *)
(***************************************************************************)
\* The plugin inits a call of init has invoked, in order.
InvokedBy(c) == SelectSeq(invoked, LAMBDA x : x[1] = c)

Range(seq) == {seq[k] : k \in 1..Len(seq)}

\* The step is a step of call c of init.
CallStepped(c) == initPc'[c] # initPc[c] \/ initIdx'[c] # initIdx[c]

\* C1: register(name, plugin) with a name that is already registered fails,
\* and the registry is as before: the same records (module, enabled flag,
\* metadata) under the same names in the same order.
C1_DuplicateRegisterFails ==
  [][\A n \in Names, m \in Modules :
       (Has(plugins, n) /\ register(n, m)) => (threw' /\ plugins' = plugins)]_vars

\* A call of register has thrown for a taken name whose record had been
\* disabled: the record is still the first one, still disabled.
C1_Witness ==
  /\ threw
  /\ RegisteredNames(plugins) = Names
  /\ plugins[1] = [name |-> "a", instance |-> "analytics", enabled |-> FALSE,
                   metadata |-> <<"analytics", "1.0.0">>]

\* C4: when the init of an enabled plugin rejects, the call of init throws to
\* its caller: it invokes no further plugin init, does not run the
\* 'plugins:initialized' hook and does not set initialized.
C4_Thrown(c) ==
  initPc[c] = "thrown" =>
    /\ run[c].pc = "idle"
    /\ InvokedBy(c) # <<>>
    /\ InvokedBy(c)[Len(InvokedBy(c))] = <<c, plugins[initIdx[c]].name>>
    /\ InitRejects(plugins[initIdx[c]].instance)
    /\ \A k \in 1..Len(plugins) :
         k > initIdx[c] => <<c, plugins[k].name>> \notin Range(invoked)
    /\ (\A d \in InitCalls \ {c} : initPc[d] = "idle") =>
         (~initialized /\ hookRuns = 0)

C4_InitFailureAborts ==
  /\ [](\A c \in InitCalls : C4_Thrown(c))
  /\ [][\A c \in InitCalls :
          /\ (/\ initPc[c] = "await"
              /\ InitRejects(plugins[initIdx[c]].instance)
              /\ CallStepped(c))
             => (/\ initPc'[c] = "thrown"
                 /\ invoked' = invoked
                 /\ initialized' = initialized
                 /\ hookRuns' = hookRuns
                 /\ run' = run)
          /\ initPc[c] = "thrown" => initPc'[c] = "thrown"]_vars

\* The first of two enabled plugins rejected: the call has thrown and the
\* second plugin's init was not invoked.
C4_Witness ==
  /\ initPc[1] = "thrown"
  /\ initPc[2] = "idle"
  /\ Len(plugins) = 2
  /\ plugins[2].enabled
  /\ invoked = << <<1, plugins[1].name>> >>

\* C6: a call of init made after a call has completed is a no-op: it returns
\* at once, no plugin init is invoked, no middleware, hook callback or route is
\* added and 'plugins:initialized' is not run again.
C6_SecondInitNoOp ==
  [][\A c \in InitCalls :
       (/\ initPc[c] = "idle"
        /\ initPc'[c] # "idle"
        /\ \E d \in InitCalls : initPc[d] = "done")
       => (/\ initPc'[c] = "done"
           /\ <<plugins, hooks, middleware, stack, initialized>>'
                = <<plugins, hooks, middleware, stack, initialized>>
           /\ <<invoked, skipped, inflight, hookRuns, run>>'
                = <<invoked, skipped, inflight, hookRuns, run>>)]_vars

\* Both calls have returned; the second found an enabled plugin that no call
\* had initialized and did not invoke it.
C6_Witness ==
  /\ initPc[1] = "done"
  /\ initPc[2] = "done"
  /\ invoked = << <<1, "a">> >>
  /\ Len(plugins) = 2
  /\ plugins[2].enabled
  /\ plugins[2].instance = "analytics"
  /\ hookRuns = 1

RECURSIVE Contributed(_, _, _)
\* What the plugin inits of a sequence of invocations add, in order: F is
\* InitMiddleware, InitHooks or InitRoutes.
Contributed(F(_), inv, ps) ==
  IF inv = <<>> THEN <<>>
  ELSE F(ps[IndexOf(ps, inv[1][2])].instance) \o Contributed(F, Tail(inv), ps)

\* C7: init invokes the init of a plugin only if the plugin is enabled when the
\* loop reaches it: a plugin that is disabled then is skipped by that call and
\* contributes nothing (middleware, hooks and routes are exactly those of the
\* invoked inits).  disable, called after init has completed, changes none of
\* the middleware, hook callbacks and routes.
C7_State ==
  /\ skipped \cap Range(invoked) = {}
  /\ middleware = Contributed(InitMiddleware, invoked, plugins)
  /\ hooks = PushHooks([h \in HookNames |-> <<>>],
                       Contributed(InitHooks, invoked, plugins))
  /\ stack = PushRoutes(<<MwLayer("static"), MwLayer("json")>>,
                        Contributed(InitRoutes, invoked, plugins))

C7_DisabledSkipped ==
  /\ []C7_State
  /\ [][/\ \A c \in InitCalls, k \in 1..Len(plugins) :
             (/\ <<c, plugins[k].name>> \in Range(invoked')
              /\ <<c, plugins[k].name>> \notin Range(invoked))
             => plugins[k].enabled
        /\ \A c \in InitCalls, k \in 1..Len(plugins) :
             (/\ CallStepped(c)
              /\ (IF initPc[c] = "idle" THEN 0 ELSE initIdx[c]) < k
              /\ k < initIdx'[c]
              /\ initPc'[c] \in {"await", "hook"})
             => (~plugins[k].enabled /\ <<c, plugins[k].name>> \in skipped')
        /\ \A n \in Names :
             (initialized /\ disable(n))
             => <<middleware, hooks, stack>>' = <<middleware, hooks, stack>>]_vars

\* "a" was disabled before init ran and was skipped; "b" was initialized and
\* then disabled, and its middleware and route are still installed.
C7_Witness ==
  /\ initPc[1] = "done"
  /\ initPc[2] = "idle"
  /\ Len(plugins) = 2
  /\ plugins[1].name = "a" /\ ~plugins[1].enabled
  /\ plugins[2].instance = "analytics" /\ ~plugins[2].enabled
  /\ skipped = {<<1, "a">>}
  /\ invoked = << <<1, "b">> >>
  /\ middleware = <<"analyticsMiddleware">>

\* C8: a call of init invokes plugin inits in registration order and one at a
\* time: at most one init it invoked is unsettled, and it is the last one it
\* invoked.  A call of runHook invokes the callbacks in the order of the hook's
\* list and one at a time.
C8_Sequential ==
  /\ \A c \in InitCalls :
       LET mine == InvokedBy(c) IN
       /\ \A x \in inflight :
            x[1] = c => (initPc[c] = "await" /\ x = mine[Len(mine)])
       /\ \A i, j \in 1..Len(mine) :
            i < j => IndexOf(plugins, mine[i][2]) < IndexOf(plugins, mine[j][2])
  /\ \A r \in Runs :
       /\ \A x \in cbPending :
            x[1] = r => (run[r].pc = "await" /\ x[2] = Len(trace[r]))
       /\ \A k \in 1..Len(trace[r]) :
            /\ k <= Len(hooks[run[r].hook])
            /\ trace[r][k][1] = hooks[run[r].hook][k]

\* Call 1 has run the inits of "a" and "b" to completion, one after the other,
\* and awaits the second callback of 'plugins:initialized'.
C8_Witness ==
  /\ invoked = << <<1, "a">>, <<1, "b">> >>
  /\ inflight = {}
  /\ run[1].pc = "await"
  /\ run[1].i = 2
  /\ cbPending = {<<1, 2>>}

(***************************************************************************)
(* Properties of runHook (under SpecHook)                                  *)
(***************************************************************************)
\* What one callback makes of the current value: its output, or the current
\* value when the output is undefined.
Apply(cb, v) ==
  LET out == CallbackOutput(cb, v) IN IF out = Undefined THEN v ELSE out

RECURSIVE Thread(_, _)
\* v threaded through a list of callbacks, first to last.
Thread(cbs, v) == IF cbs = <<>> THEN v ELSE Thread(Tail(cbs), Apply(cbs[1], v))

NoneThrows(cbs) == \A k \in 1..Len(cbs) : ~CallbackThrows(cbs[k])

Surviving(cbs) == SelectSeq(cbs, LAMBDA cb : ~CallbackThrows(cb))

\* The call of runHook by a caller returns (or raises) in this step.
RunEnds == run[0].pc = "await" /\ run'[0].pc # "await"

\* C2: runHook(name, v) returns v threaded through the callbacks registered
\* for name, in registration order: callback k is called once, with v threaded
\* through the callbacks before it; with no callbacks the result is v.
C2_RunHookThreads ==
  [][LET cbs == hooks'[run'[0].hook] IN
     (/\ run'[0].pc = "returned"
      /\ run[0].pc # "returned" \/ run'[0].data # run[0].data
                                \/ run'[0].hook # run[0].hook
      /\ NoneThrows(cbs))
     => (/\ run'[0].result = Thread(cbs, run'[0].data)
         /\ Len(trace'[0]) = Len(cbs)
         /\ \A k \in 1..Len(cbs) :
              trace'[0][k] = <<cbs[k], Thread(SubSeq(cbs, 1, k - 1), run'[0].data)>>)]_vars

\* f1 returned undefined, then a callback registered twice ran twice.
C2_Witness ==
  /\ run[0].pc = "returned"
  /\ run[0].data = 2
  /\ hooks[run[0].hook] = <<"observe", "inc", "inc">>
  /\ trace[0] = << <<"observe", 2>>, <<"inc", 2>>, <<"inc", 0>> >>
  /\ run[0].result = 1

\* C3: a callback that throws does not make runHook raise: the callbacks after
\* it still run, each with the value threaded through the callbacks before it
\* that did not throw, runHook returns that value threaded through all of
\* them, and the GET / handler renders the page.
C3_ThrowingCallbackAbsorbed ==
  /\ [](\A r \in Runs : run[r].pc # "raised")
  /\ [](response # "500")
  /\ [][LET cbs == hooks'[run'[0].hook] IN
        (RunEnds /\ ~NoneThrows(cbs))
        => (/\ run'[0].pc = "returned"
            /\ run'[0].result = Thread(Surviving(cbs), run'[0].data)
            /\ Len(trace'[0]) = Len(cbs)
            /\ \A k \in 1..Len(cbs) :
                 trace'[0][k] =
                   <<cbs[k], Thread(Surviving(SubSeq(cbs, 1, k - 1)), run'[0].data)>>)]_vars

\* GET / rendered the page although the second 'haikus:render' callback threw;
\* the third callback got the value the first one returned.
C3_Witness ==
  /\ response = "rendered"
  /\ run[0].client = "GET /"
  /\ trace[0] = << <<"inc", 1>>, <<"fail", 2>>, <<"dbl", 2>> >>
  /\ run[0].result = 1

(***************************************************************************)
(* Properties of bootstrap and loadFromDirectory (under SpecBoot)          *)
(***************************************************************************)
\* bootstrap has installed something of its own on the app.
HostInstalled ==
  \E k \in 1..Len(stack) :
    \/ stack[k] \in {RouteLayer("/"), RouteLayer("/api/plugins"),
                     MwLayer("errorHandler")}
    \/ \E i \in 1..Len(middleware) : stack[k] = MwLayer(middleware[i])

\* The scan of the directory is over and no registered plugin's init rejects.
LoadedSound ==
  /\ bootPc = "plugins"
  /\ loadIdx > Len(files)
  /\ \A k \in 1..Len(plugins) : ~InitRejects(plugins[k].instance)

\* C5: if the init of a plugin fails, bootstrap installs no middleware, never
\* listens, never runs 'app:start', and the process exits; the process exits
\* for no other reason, and when files fail to load the server still starts.
C5_InitFailureAbortsStartup ==
  /\ [](initPc[1] = "thrown" =>
          /\ bootPc \in {"plugins", "exited"}
          /\ ~listening
          /\ ~HostInstalled
          /\ run[AppStartRun].pc = "idle")
  /\ [](bootPc = "exited" => initPc[1] = "thrown")
  /\ (initPc[1] = "thrown") ~> (bootPc = "exited")
  /\ LoadedSound ~> listening

\* The process has exited on the failed init of broken.js, after analytics had
\* added its middleware to the manager and bad.js had failed to load.
C5_Witness ==
  /\ bootPc = "exited"
  /\ loadFailed = <<"bad.js">>
  /\ loaded = <<"analytics.js", "broken.js">>
  /\ middleware = <<"analyticsMiddleware">>
  /\ ~listening

\* C9: loadFromDirectory registers the plugins in alphabetical order of their
\* file names, whatever the order of the listing.
C9_AlphabeticalRegistration ==
  \A i, j \in 1..Len(loaded) :
    i < j => FileRank(loaded[i]) < FileRank(loaded[j])

\* The file at position k of the scan can be loaded when it is reached: its
\* import succeeds, it has an init, and no file loaded before it has its name.
Loadable(k) ==
  /\ ~ImportFails(files[k])
  /\ HasInit(FileModule(files[k]))
  /\ \A i \in 1..(k - 1) :
       (~ImportFails(files[i]) /\ HasInit(FileModule(files[i])))
       => PluginName(files[i]) # PluginName(files[k])

ScannedLoadable == SelectSeq([k \in 1..(loadIdx - 1) |-> k], Loadable)

\* C10: a file whose load fails leaves the registry as it is and does not stop
\* the scan: when the scan is over every file has been tried, the registry
\* holds exactly the loadable files' plugins, in the order of the scan, and
\* loadFromDirectory has returned to bootstrap, which calls init.
C10_State ==
  bootPc # "start" =>
    /\ loadIdx <= Len(files) + 1
    /\ loaded = [k \in 1..Len(ScannedLoadable) |-> files[ScannedLoadable[k]]]
    /\ Range(loaded) \cap Range(loadFailed) = {}
    /\ Range(loaded) \cup Range(loadFailed) = {files[k] : k \in 1..(loadIdx - 1)}
    /\ plugins = [k \in 1..Len(loaded) |->
                    [name |-> PluginName(loaded[k]),
                     instance |-> FileModule(loaded[k]),
                     enabled |-> TRUE,
                     metadata |-> MetadataOf(FileModule(loaded[k]))]]
    /\ (bootPc # "plugins" \/ initPc[1] # "idle") => loadIdx = Len(files) + 1

C10_LoadFailureIsolated ==
  /\ []C10_State
  /\ [][(/\ bootPc = "plugins"
         /\ loadIdx <= Len(files)
         /\ LoadThrows(plugins, files[loadIdx])
         /\ loadIdx' # loadIdx \/ bootPc' # bootPc)
        => (/\ regVars' = regVars
            /\ loadIdx' = loadIdx + 1
            /\ bootPc' = "plugins")]_vars
  /\ (bootPc = "plugins" /\ initPc[1] = "idle") ~> (initPc[1] # "idle")

\* bad.js and logger-copy.js failed to load (an import error, a name already
\* registered); logger.js, listed between them, was registered and the server
\* started.
C10_Witness ==
  /\ listening
  /\ files = <<"bad.js", "logger.js", "logger-copy.js">>
  /\ loadFailed = <<"bad.js", "logger-copy.js">>
  /\ loaded = <<"logger.js">>
  /\ RegisteredNames(plugins) = {"logger"}

\* C11: loadFromDirectory on a directory that does not exist returns without
\* throwing: the step registers nothing and changes neither the registry, the
\* hook table nor the middleware; no file is loaded or fails, bootstrap does
\* not exit and goes on to call init and to listen.
C11_MissingDirectory ==
  /\ [][(bootPc = "start" /\ ~dirExists /\ bootPc' # bootPc)
        => (/\ bootPc' = "plugins"
            /\ files' = <<>>
            /\ loadIdx' > Len(files')
            /\ <<plugins, hooks, middleware, initialized, stack>>'
                 = <<plugins, hooks, middleware, initialized, stack>>)]_vars
  /\ [](~dirExists =>
          /\ plugins = <<>>
          /\ middleware = <<>>
          /\ hooks = [h \in HookNames |-> <<>>]
          /\ loaded = <<>>
          /\ loadFailed = <<>>
          /\ bootPc # "exited")
  /\ (~dirExists /\ bootPc = "start") ~> (initPc[1] = "done" /\ listening)

\* The server listens with an empty registry: there was no plugins directory.
C11_Witness ==
  /\ ~dirExists
  /\ listening
  /\ initPc[1] = "done"
  /\ plugins = <<>>
  /\ stack = <<MwLayer("static"), MwLayer("json")>> \o Installed(<<>>)

\* C12: a call of runHook completes and returns a value, whatever the
\* callbacks of the hook table (each of which settles), callbacks that call
\* registerHook while the hook runs included.
C12_RunHookCompletes ==
  (run[0].pc = "await") ~> (run[0].pc = "returned")

\* C13: register(name, plugin) with a plugin whose init is missing or is not a
\* function throws and adds no record: the registry is as before, the name is
\* still free if it was, and no record of the registry ever holds such a
\* plugin.
C13_MissingInitRejected ==
  /\ [][\A n \in Names, m \in Modules :
          (InitType(m) # "function" /\ register(n, m))
          => (/\ threw'
              /\ plugins' = plugins
              /\ ~Has(plugins, n) => (/\ ~Has(plugins', n)
                                      /\ error' = "must have an init function"))]_vars
  /\ [](\A k \in 1..Len(plugins) : InitType(plugins[k].instance) = "function")

\* register has thrown for a plugin without a callable init under the free
\* name "b": the registry still holds the record of "a" alone.
C13_Witness ==
  /\ threw
  /\ error = "must have an init function"
  /\ RegisteredNames(plugins) = {"a"}
  /\ initPc[1] = "idle"

(***************************************************************************)
(* Properties of the registry (under SpecRegistry and Spec)                *)
(***************************************************************************)
\* The names of the entries of a list() result, in its order.
ListNames(l) == [k \in 1..Len(l) |-> l[k].name]

\* C14: list() holds one entry per plugin registered with success, in the
\* order of registration, whatever the enabled flags: a register call that
\* succeeds appends one entry, a register call that throws changes nothing,
\* and enable and disable add, remove and move no entry.
C14_ListInRegistrationOrder ==
  /\ [][/\ \A n \in RegistryNames, m \in Modules :
             register(n, m) =>
               IF RegisterThrows(plugins, n, m)
               THEN list' = list
               ELSE list' = Append(list, [name |-> n, enabled |-> TRUE,
                                          metadata |-> MetadataOf(m)])
        /\ \A n \in RegistryNames :
             (enable(n) \/ disable(n)) => ListNames(list') = ListNames(list)]_vars
  /\ [](\A i, j \in 1..Len(list) : list[i].name = list[j].name => i = j)

\* "c", "a" and "b" were registered in this order and "b" is disabled: list()
\* reports c, a, b, the last one with enabled false.
C14_Witness ==
  /\ ListNames(list) = <<"c", "a", "b">>
  /\ list[1].enabled
  /\ list[2].enabled
  /\ ~list[3].enabled
  /\ list[2] = [name |-> "a", enabled |-> TRUE, metadata |-> <<"analytics", "1.0.0">>]

\* C15: enable(name) and disable(name) throw for a name that is not registered
\* and change nothing; for a registered name they set the enabled flag of that
\* record and nothing else: the records, their names and their order are the
\* same, the other records are unchanged, and the hook table, the middleware,
\* the routes, the initialized flag and the running init calls are unchanged.
C15_EnableDisableFrame ==
  [][\A n \in Names, flag \in BOOLEAN :
       (IF flag THEN enable(n) ELSE disable(n)) =>
         /\ <<hooks, middleware, stack, initialized>>'
              = <<hooks, middleware, stack, initialized>>
         /\ <<initVars, runVars>>' = <<initVars, runVars>>
         /\ IF ~Has(plugins, n)
            THEN /\ threw'
                 /\ error' = "not found"
                 /\ plugins' = plugins
            ELSE /\ ~threw'
                 /\ Len(plugins') = Len(plugins)
                 /\ \A k \in 1..Len(plugins) :
                      plugins'[k] =
                        IF plugins[k].name = n
                        THEN [plugins[k] EXCEPT !.enabled = flag]
                        ELSE plugins[k]]_vars

\* enable has thrown for the unregistered name "b" while init call 1 awaited
\* the init of "a", after "a" had been disabled: one record, still disabled.
C15_Witness ==
  /\ threw
  /\ error = "not found"
  /\ Len(plugins) = 1
  /\ plugins[1].name = "a"
  /\ ~plugins[1].enabled
  /\ initPc[1] = "await"

(***************************************************************************)
(* Properties of the startup sequence (under SpecBoot)                     *)
(***************************************************************************)
\* The middleware functions among the layers of the app, in the order of the
\* layers (the request pipeline).
Pipeline ==
  LET uses == SelectSeq(stack, LAMBDA l : l.kind = "use"
                                          /\ l.id \notin {"static", "json", "errorHandler"})
  IN [k \in 1..Len(uses) |-> uses[k].id]

\* Position of the init of the plugin that adds middleware function fn among
\* the inits invoked (0 if none was).
InitOrder(fn) ==
  IF \E k \in 1..Len(invoked) :
       fn \in Range(InitMiddleware(plugins[IndexOf(plugins, invoked[k][2])].instance))
  THEN CHOOSE k \in 1..Len(invoked) :
         fn \in Range(InitMiddleware(plugins[IndexOf(plugins, invoked[k][2])].instance))
  ELSE 0

\* C16: getMiddleware() holds the middleware functions in the order of their
\* addMiddleware calls, that is of the inits that made them, and once
\* bootstrap has installed them the pipeline of the app holds them in that
\* order: the middleware of a plugin initialized earlier comes first.
C16_MiddlewareOrder ==
  /\ getMiddleware = Contributed(InitMiddleware, invoked, plugins)
  /\ \A i, j \in 1..Len(getMiddleware) :
       i < j => InitOrder(getMiddleware[i]) < InitOrder(getMiddleware[j])
  /\ bootPc \in {"listen", "serving"} =>
       /\ Pipeline = getMiddleware
       /\ \A i, j \in 1..Len(Pipeline) :
            InitOrder(Pipeline[i]) < InitOrder(Pipeline[j]) => i < j
  /\ bootPc \in {"start", "plugins", "exited"} => Pipeline = <<>>

\* logger.js was listed, loaded and initialized before analytics.js: the
\* pipeline runs the logger middleware before the analytics middleware.
C16_Witness ==
  /\ bootPc = "serving"
  /\ invoked = << <<1, "logger">>, <<1, "analytics">> >>
  /\ Pipeline = <<"loggerMiddleware", "analyticsMiddleware">>

\* Position of a layer in the stack of the app (0 if it is not there).
LayerIndex(l) ==
  IF \E k \in 1..Len(stack) : stack[k] = l
  THEN CHOOSE k \in 1..Len(stack) : stack[k] = l
  ELSE 0

\* C17: the startup events come in this order: the files are loaded and the
\* plugins registered; then the init of every enabled plugin runs; then
\* 'plugins:initialized' runs, once; then bootstrap installs the plugin
\* middleware, and after it its routes (/ and /api/plugins); then the server
\* listens; then 'app:start' runs.  No 'app:start' callback is called before
\* the server listens.
C17_State ==
  /\ initPc[1] # "idle" =>
       (bootPc # "start" /\ loadIdx > Len(files))
  /\ run[1].pc # "idle" =>
       /\ inflight = {}
       /\ initialized
       /\ \A k \in 1..Len(plugins) :
            plugins[k].enabled => <<1, plugins[k].name>> \in Range(invoked)
  /\ hookRuns = (IF initPc[1] \in {"hook", "done"} THEN 1 ELSE 0)
  /\ HostInstalled =>
       /\ initPc[1] = "done"
       /\ run[1].pc = "returned"
       /\ Len(trace[1]) = Len(hooks["plugins:initialized"])
       /\ \A i \in 1..Len(middleware) :
            /\ LayerIndex(MwLayer(middleware[i])) > 0
            /\ LayerIndex(MwLayer(middleware[i])) < LayerIndex(RouteLayer("/"))
       /\ LayerIndex(RouteLayer("/")) < LayerIndex(RouteLayer("/api/plugins"))
       /\ LayerIndex(RouteLayer("/api/plugins")) = Len(stack) - 1
  /\ listening => (bootPc = "serving" /\ HostInstalled)
  /\ (run[AppStartRun].pc # "idle" \/ trace[AppStartRun] # <<>>) => listening

C17_StartupOrder ==
  /\ []C17_State
  /\ [][/\ initPc[1] # "idle" => plugins' = plugins
        /\ HostInstalled => <<middleware, hooks, stack>>' = <<middleware, hooks, stack>>
        /\ listening => listening']_vars

\* The server listens and the 'app:start' callback of the logger plugin has
\* run, after the two callbacks of 'plugins:initialized' and the installation
\* of the middleware.
C17_Witness ==
  /\ listening
  /\ loaded = <<"watcher.js", "logger.js">>
  /\ trace[1] = << <<"inc", AppData>>, <<"observe", 1>> >>
  /\ Pipeline = <<"loggerMiddleware">>
  /\ run[AppStartRun].pc = "returned"
  /\ trace[AppStartRun] = << <<"loggerStarted", AppData>> >>

(***************************************************************************)
(* Properties of the requests (under SpecServer)                           *)
(***************************************************************************)
\* The paths that are routes of the application.
RoutePaths == Paths \ {"/api/nothing", "/nothing"}

\* The routes of the stack, as the handlers that answer.
RouteIds == {stack[k].id : k \in {j \in 1..Len(stack) : stack[j].kind = "route"}}

\* C18: every request to a route of the application, the routes plugins add
\* in their init included, passes through the CORS middleware, and its
\* response carries Access-Control-Allow-Origin.
C18_CorsOnAllRoutes ==
  res.path \in RoutePaths =>
    /\ "corsMiddleware" \in Range(res.passed)
    /\ "Access-Control-Allow-Origin" \in res.headers

\* C19: a GET of /api/haikus/random is answered by the handler of
\* /api/haikus/random, never by the handler of /api/haikus/:id, with an index
\* in 0 .. N - 1 and the haiku at that index as data.
C19_RandomRoute ==
  (res.method = "GET" /\ res.path = "/api/haikus/random") =>
    /\ res.handler = "/api/haikus/random"
    /\ res.status = 200
    /\ res.index \in 0..(NumHaikus - 1)
    /\ res.data = HaikuAt(res.index)
    /\ res.data # Undefined

\* GET /api/haikus/random was answered with the last haiku, by a server whose
\* directory was listed in reverse order.
C19_Witness ==
  /\ res.path = "/api/haikus/random"
  /\ res.handler = "/api/haikus/random"
  /\ res.index = NumHaikus - 1
  /\ res.data = HaikuAt(NumHaikus - 1)
  /\ dir = Reverse(RepoFiles)

\* C20: every request under /api/ that a route handler answers was counted
\* by the rate-limit middleware before, and a request of a key whose count in
\* the window exceeds maxRequests is answered 429.
C20_RateLimitOnApi ==
  (res.path # "" /\ StartsWithApi(res.path)) =>
    /\ res.handler \in RouteIds => "rateLimitMiddleware" \in Range(res.passed)
    /\ requestCounts[res.client].count > maxRequests => res.status = 429

(***************************************************************************)
(* The rate limiter                                                        *)
(***************************************************************************)
\* The step is a request of key under /api/ that the middleware of the rate
\* limiter has counted.
CountedStep(key) ==
  /\ requestCounts'[key] # requestCounts[key]
  /\ requestCounts'[key] # NoEntry

\* C21: for each key, the window of its entry starts with the first request
\* counted in it (resetTime); of the requests under /api/ that reach the
\* middleware up to windowMs after resetTime, at most maxRequests are passed
\* on to next() and every one after them is answered 429; a request that
\* comes more than windowMs after resetTime starts a new window with count 1.
C21_WindowLimit ==
  /\ [](\A key \in Clients :
          /\ admitted[key].n <= maxRequests
          /\ requestCounts[key] # NoEntry =>
               requestCounts[key].resetTime = admitted[key].since)
  /\ [][\A key \in Clients :
          CountedStep(key) /\ admitted[key] # NoWindow =>
            IF now - admitted[key].since > windowMs
            THEN /\ requestCounts'[key] = [count |-> 1, resetTime |-> now]
                 /\ res'.status = 0
            ELSE res'.status = IF admitted[key].n >= maxRequests THEN 429 ELSE 0]_vars

\* A request that comes exactly windowMs after the start of a window in which
\* maxRequests requests were passed on is answered 429.
C21_Witness ==
  /\ res.status = 429
  /\ res.handler = "rateLimitMiddleware"
  /\ admitted[res.client].n = maxRequests
  /\ now - requestCounts[res.client].resetTime = windowMs

(***************************************************************************)
(* GET /api/haikus/:id                                                     *)
(***************************************************************************)
\* The string is an integer in decimal notation: digits, after a minus sign
\* or not.
IsInteger(chars) ==
  LET digits == IF chars # <<>> /\ Head(chars) = "-" THEN Tail(chars) ELSE chars
  IN digits # <<>> /\ \A k \in 1..Len(digits) : digits[k] \in Digits

\* The integer that such a string denotes.
IntegerOf(chars) ==
  IF Head(chars) = "-" THEN 0 - DecimalValue(Tail(chars)) ELSE DecimalValue(chars)

\* C22: GET /api/haikus/:id answers 200 with the haiku at index id when id is
\* an integer with 0 <= id < N, and 404 for every other id: negative, out of
\* range, or not a number.
C22_HaikuById ==
  res.handler = "/api/haikus/:id" =>
    LET id == IdParam(res.path) IN
    IF IsInteger(id) /\ IntegerOf(id) >= 0 /\ IntegerOf(id) < NumHaikus
    THEN res.status = 200 /\ res.data = HaikuAt(IntegerOf(id))
    ELSE res.status = 404

(***************************************************************************)
(* The calls of init over the lifetime of a manager                        *)
(***************************************************************************)
\* C23: over the lifetime of a manager the init of each plugin is invoked at
\* most once, whatever the calls of PluginManager.init and their
\* interleaving: no plugin is invoked twice, by one call or by two.
C23_InitAtMostOnce ==
  \A i, j \in 1..Len(invoked) : i # j => invoked[i][2] # invoked[j][2]

\* The init of the plugin registered as name has run to completion: a call
\* of PluginManager.init invoked it and it has settled without rejecting.
InitCompleted(name) ==
  \E c \in InitCalls :
    /\ \E k \in 1..Len(invoked) : invoked[k] = <<c, name>>
    /\ <<c, name>> \notin inflight
    /\ ~InitRejects(plugins[IndexOf(plugins, name)].instance)

\* C24: once PluginManager.init has completed (initialized is true), the init
\* of every plugin that list() reports as enabled has run to completion,
\* whatever register, enable and disable calls were made before, during or
\* after init.
C24_EnabledAreInitialized ==
  initialized =>
    \A k \in 1..Len(list) : list[k].enabled => InitCompleted(list[k].name)

(***************************************************************************)
(* The cleanup of the rate limiter                                         *)
(***************************************************************************)
\* C25: the cleanup deletes only entries whose window has expired (now -
\* resetTime > windowMs); so the count a request is given, and with it the
\* answer (next() or 429), is the one the same requests are given when no
\* cleanup ever runs; and a request of one key leaves the entry of every
\* other key as it was.
C25_CleanupTransparent ==
  /\ [][\A key \in Clients :
          requestCounts[key] # NoEntry /\ requestCounts'[key] = NoEntry =>
            now - requestCounts[key].resetTime > windowMs]_vars
  /\ [][\A key \in Clients :
          CountedStep(key) =>
            /\ requestCounts'[key] = uncleaned'[key]
            /\ \A other \in Clients \ {key} :
                 requestCounts'[other] = requestCounts[other]]_vars

\* The cleanup has deleted the expired entry of a key and the entry of
\* another key, which is windowMs old, is there: the last request, of that
\* key, was answered 429.
C25_Witness ==
  \E key, other \in Clients :
    /\ requestCounts[key] = NoEntry
    /\ uncleaned[key] # NoEntry
    /\ requestCounts[other] # NoEntry
    /\ now - requestCounts[other].resetTime = windowMs
    /\ res.client = other
    /\ res.handler = "rateLimitMiddleware"

====
